---- MODULE Spec2Model ----
(***************************************************************************)
(* A model of amica_processing: the annotation ingestion pipeline          *)
(* (src/src/amica_processing.py) and the entity anonymization pipeline     *)
(* (src/src/twitIE_amica.py).                                              *)
(*                                                                         *)
(* A Python str is modelled as the sequence of its characters, each        *)
(* character a one-character TLA+ string; Python's None is the sequence    *)
(* None, whose only element is no character of any text.                   *)
(***************************************************************************)
EXTENDS Integers, Sequences, FiniteSets, TLC

VARIABLES
    \* ---- ingestion pipeline (amica_processing.py)
    dataset,    \* the folder: the files of sorted(files), each with its .ann and .txt
    ipc,        \* where the ingestion run is
    fi,         \* index in dataset of the file the generator handles
    err,        \* annotations(): err
    load,       \* annotations(): load
    text,       \* convert(): text, index -> sentence
    ann,        \* convert(): ann, start offset -> annotation
    position,   \* entry_to_data(): position
    sidx,       \* entry_to_data(): index of the next sentence of the loop
    entry,      \* entry_to_data(): entry["data"], index -> sentence record
    data,       \* files_to_dict(): data, as the sequence of its (fname, entry) items
    flat,       \* store_csv_json(): flat
    jsonOut,    \* the JSON document written by store_csv_json()
    csvOut,     \* the rows written by store_csv_json()
    \* ---- anonymization pipeline (twitIE_amica.py)
    chunks,     \* process(): chunks, each the list of its clean_text sentences
    ppc,        \* where the anonymization run is
    ci,         \* process(): i
    cj,         \* process(): j
    dic,        \* process(): dic, as the sequence of its (key, value) items
    posted,     \* every request sent: its chunk, sub-batch, sentences and outcome,
                \* and the entities of its response
    mi,         \* process_merge(): how many items of dictionary1 are handled
    new_sent_list,  \* process_merge(): new_sent_list
    hash_dict,  \* process_merge(): hash_dict, as the sequence of its writes still visible
    merged      \* per item handled by process_merge(): total_replace and the split result,
                \* and hash_dict as it was after the item

ivars == <<dataset, ipc, fi, err, load, text, ann, position, sidx, entry, data,
           flat, jsonOut, csvOut>>
avars == <<chunks, ppc, ci, cj, dic, posted, mi, new_sent_list, hash_dict, merged>>
vars == <<ivars, avars>>

-----------------------------------------------------------------------------
(* Bounds of the model *)

\* Most files of a folder.
MaxFiles == 2
\* Most lines of a .txt file.
MaxLines == 2
\* Most lines of a .ann file.
MaxAnn == 2
\* Largest start offset of an annotation.
MaxStart == 3

-----------------------------------------------------------------------------
(* Python str operations *)

None == <<"#None">>

NL == "\n"
PILCROW == "P"    \* the character U+00B6

Max(a, b) == IF a >= b THEN a ELSE b
Min(a, b) == IF a <= b THEN a ELSE b

\* s[i:j] of Python, 0-based, 0 <= i, 0 <= j
Slice(s, i, j) == SubSeq(s, Min(i, Len(s)) + 1, Min(j, Len(s)))

\* s[k:k+len(p)] == p, with k 1-based
MatchAt(s, p, k) == /\ k + Len(p) - 1 <= Len(s)
                    /\ SubSeq(s, k, k + Len(p) - 1) = p

\* p in s
Contains(s, p) == \E k \in 1..(Len(s) + 1) : MatchAt(s, p, k)

\* s.find(p, k - 1) + 1 for a non-empty p: the first match at or after k, 0 if none
FindFrom(s, p, k) ==
    LET at == {m \in k..Len(s) : MatchAt(s, p, m)}
    IN  IF at = {} THEN 0 ELSE CHOOSE m \in at : \A n \in at : m <= n

RECURSIVE ReplaceFrom(_, _, _, _)
ReplaceFrom(s, old, new, k) ==
    LET m == FindFrom(s, old, k)
    IN  IF m = 0 THEN SubSeq(s, k, Len(s))
        ELSE SubSeq(s, k, m - 1) \o new \o ReplaceFrom(s, old, new, m + Len(old))

RECURSIVE Interleave(_, _, _)
Interleave(s, new, k) ==
    IF k > Len(s) THEN new ELSE new \o <<s[k]>> \o Interleave(s, new, k + 1)

\* s.replace(old, new): every non-overlapping occurrence, left to right; an empty
\* old matches before every character and at the end.
Replace(s, old, new) ==
    IF old = <<>> THEN Interleave(s, new, 1) ELSE ReplaceFrom(s, old, new, 1)

RECURSIVE SplitFrom(_, _, _)
SplitFrom(s, d, k) ==
    LET m == FindFrom(s, d, k)
    IN  IF m = 0 THEN <<SubSeq(s, k, Len(s))>>
        ELSE <<SubSeq(s, k, m - 1)>> \o SplitFrom(s, d, m + Len(d))

\* s.split(d), d not empty
Split(s, d) == SplitFrom(s, d, 1)

IsSpace(c) == c \in {" ", "\n", "\t"}

RECURSIVE SplitWsFrom(_, _, _)
SplitWsFrom(s, k, cur) ==
    IF k > Len(s) THEN (IF cur = <<>> THEN <<>> ELSE <<cur>>)
    ELSE IF IsSpace(s[k])
         THEN (IF cur = <<>> THEN <<>> ELSE <<cur>>) \o SplitWsFrom(s, k + 1, <<>>)
    ELSE SplitWsFrom(s, k + 1, Append(cur, s[k]))

\* s.split(): the maximal runs of non-whitespace characters
SplitWs(s) == SplitWsFrom(s, 1, <<>>)

RECURSIVE Join(_, _)
\* sep.join(parts)
Join(sep, parts) ==
    IF parts = <<>> THEN <<>>
    ELSE IF Len(parts) = 1 THEN parts[1]
    ELSE parts[1] \o sep \o Join(sep, Tail(parts))

Digits == <<"0", "1", "2", "3", "4", "5", "6", "7", "8", "9">>

DigitVal(c) == (CHOOSE d \in 1..10 : Digits[d] = c) - 1

IsDigit(c) == \E d \in 1..10 : Digits[d] = c

\* whether int(s) returns: s is a non-empty run of decimal digits
IsInt(s) == s # <<>> /\ \A k \in 1..Len(s) : IsDigit(s[k])

RECURSIVE IntOf(_)
\* int(s) for a run of decimal digits
IntOf(s) ==
    IF s = <<>> THEN 0 ELSE 10 * IntOf(SubSeq(s, 1, Len(s) - 1)) + DigitVal(s[Len(s)])

RECURSIVE StrOf(_)
\* str(n), n >= 0
StrOf(n) == IF n < 10 THEN <<Digits[n + 1]>> ELSE StrOf(n \div 10) \o <<Digits[(n % 10) + 1]>>

\* The characters of the model in the order of their code points.
Alphabet == <<"\t", "\n", " ", "&", ",", "-", "/", "0", "1", "2", "3", "4", "5", "6",
              "7", "8", "9", ";", "<", ">", "?", "@", "A", "C", "D", "E", "I", "L",
              "N", "O", "P", "R", "S", "T", "U", "X", "Y", "_", "a", "b", "d", "e",
              "g", "i", "k", "l", "n", "o", "q", "r", "s", "t", "u", "v", "w">>

Ord(c) == CHOOSE k \in 1..Len(Alphabet) : Alphabet[k] = c

RECURSIVE StrLess(_, _)
\* s < t of Python str
StrLess(s, t) ==
    IF t = <<>> THEN FALSE
    ELSE IF s = <<>> THEN TRUE
    ELSE IF s[1] = t[1] THEN StrLess(Tail(s), Tail(t))
    ELSE Ord(s[1]) < Ord(t[1])

RECURSIVE SeqsUpTo(_, _)
\* The sequences over S of at most n elements.
SeqsUpTo(S, n) ==
    IF n = 0 THEN {<<>>}
    ELSE LET shorter == SeqsUpTo(S, n - 1)
         IN  shorter \cup {Append(q, x) : q \in {r \in shorter : Len(r) = n - 1}, x \in S}

-----------------------------------------------------------------------------
(* dict: the sequence of its items, in insertion order *)

HasKey(d, k) == \E n \in 1..Len(d) : d[n].key = k

Get(d, k) == d[CHOOSE n \in 1..Len(d) : d[n].key = k].val

\* d[k] = v: a new key is appended, an old key keeps its place
Put(d, k, v) ==
    IF HasKey(d, k)
    THEN [n \in 1..Len(d) |-> IF d[n].key = k THEN [key |-> k, val |-> v] ELSE d[n]]
    ELSE Append(d, [key |-> k, val |-> v])

Keys(d) == [n \in 1..Len(d) |-> d[n].key]

-----------------------------------------------------------------------------
(* amica_processing.py: convert() *)

\* text = {i: t for i, t in enumerate([te.replace('\n', '') for te in txt if te != '\n'])}
ConvertText(txt) ==
    LET kept == SelectSeq(txt, LAMBDA te : te # <<NL>>)
    IN  [i \in 0..(Len(kept) - 1) |-> Replace(kept[i + 1], <<NL>>, <<>>)]

\* One item of the dict comprehension, for the line a = x.split('\t'); the key is
\* evaluated before the value, the value's entries in the order written.
ConvertLine(a) ==
    IF Len(a) < 2 THEN [exc |-> "IndexError"]
    ELSE LET toks == SplitWs(a[2]) IN
         IF Len(toks) < 2 THEN [exc |-> "IndexError"]
         ELSE IF ~IsInt(toks[2]) THEN [exc |-> "ValueError"]
         ELSE IF ~IsInt(Slice(a[1], 1, Len(a[1]))) THEN [exc |-> "ValueError"]
         ELSE IF \E n \in 2..Len(toks) : ~IsInt(toks[n]) THEN [exc |-> "ValueError"]
         ELSE IF Len(a) < 3 THEN [exc |-> "IndexError"]
         ELSE [exc |-> "none",
               key |-> IntOf(toks[2]),
               val |-> [t |-> IntOf(Slice(a[1], 1, Len(a[1]))),
                        index |-> [n \in 1..(Len(toks) - 1) |-> IntOf(toks[n + 1])],
                        text |-> IF Contains(a[3], <<PILCROW>>) THEN None
                                 ELSE Replace(a[3], <<NL>>, <<>>),
                        label |-> toks[1]]]

RECURSIVE ConvertAnnFrom(_, _, _)
ConvertAnnFrom(lines, n, acc) ==
    IF n > Len(lines) THEN [exc |-> "none", ann |-> acc]
    ELSE LET item == ConvertLine(Split(lines[n], <<"\t">>)) IN
         IF item.exc # "none" THEN [exc |-> item.exc, ann |-> <<>>]
         ELSE ConvertAnnFrom(lines, n + 1,
                [k \in (DOMAIN acc) \cup {item.key} |->
                    IF k = item.key THEN item.val ELSE acc[k]])

\* The try block of convert(): the annotation dict, or the exception that ends it.
ConvertAnn(lines) == ConvertAnnFrom(lines, 1, <<>>)

-----------------------------------------------------------------------------
(* amica_processing.py: entry_to_data() *)

\* AddLabel with the list replaced on every span, not only on KeyError.
AddLabelOverwrites(labels, label, txt) == Put(labels, label, <<txt>>)

\* labels[label].append(text), or labels[label] = [text] on KeyError
AddLabel(labels, label, txt) ==
    IF HasKey(labels, label) THEN Put(labels, label, Append(Get(labels, label), txt))
    ELSE Put(labels, label, <<txt>>)

\* ApplyAnn with the width taken inclusive of the end offset.
ApplyAnnInclusive(a, st) ==
    IF Len(a.index) < 2 THEN [st EXCEPT !.exc = "IndexError"]
    ELSE IF a.index[2] - a.index[1] + 1 = 1 THEN [st EXCEPT !.macro = a.label]
    ELSE [st EXCEPT !.labels = AddLabel(st.labels, a.label, a.text)]

\* What an annotation found at the cursor does to (labels, macro).
ApplyAnn(a, st) ==
    IF Len(a.index) < 2 THEN [st EXCEPT !.exc = "IndexError"]
    ELSE IF a.index[2] - a.index[1] = 1 THEN [st EXCEPT !.macro = a.label]
    ELSE [st EXCEPT !.labels = AddLabel(st.labels, a.label, a.text)]

RECURSIVE WalkFrom(_, _, _, _)
\* for _ in sentence: ...; position += 1
WalkFrom(sentence, annotations, k, st) ==
    IF k > Len(sentence) \/ st.exc # "none" THEN st
    ELSE LET hit == IF st.position \in DOMAIN annotations
                    THEN ApplyAnn(annotations[st.position], st) ELSE st
         IN  IF hit.exc # "none" THEN hit
             ELSE WalkFrom(sentence, annotations, k + 1,
                           [hit EXCEPT !.position = hit.position + 1])

\* One pass of the loop over the sentences, up to the position += 1 after the walk.
WalkSentence(sentence, annotations, pos) ==
    LET st == WalkFrom(sentence, annotations, 1,
                       [labels |-> <<>>, macro |-> None, position |-> pos, exc |-> "none"])
    IN  IF st.exc # "none" THEN st ELSE [st EXCEPT !.position = st.position + 1]

\* Scope with the parity test without its "not".
ScopeFlipped(file_name, index) ==
    IF Contains(file_name, <<"a", "s", "k">>)
    THEN (IF index % 2 # 0 THEN <<"q">> ELSE <<"a">>)
    ELSE <<"?">>

\* scope = ('q' if not index % 2 else 'a') if 'ask' in file_name else '?'
Scope(file_name, index) ==
    IF Contains(file_name, <<"a", "s", "k">>)
    THEN (IF index % 2 = 0 THEN <<"q">> ELSE <<"a">>)
    ELSE <<"?">>

\* The record stored in entry["data"][index].
SentenceRecord(file_name, index, sentence, st) ==
    [sentence |-> Replace(sentence, <<PILCROW, " ">>, <<>>),
     labels |-> st.labels,
     macro |-> st.macro,
     scope |-> Scope(file_name, index)]

-----------------------------------------------------------------------------
(* amica_processing.py: store_csv_json() *)

JNull == <<"#null">>

\* DumpStr with None written as the text of str(None).
DumpStrAsText(v) == IF v = None THEN <<"N", "o", "n", "e">> ELSE v

\* None is written as null
DumpStr(v) == IF v = None THEN JNull ELSE v

\* null is read as None
LoadStr(v) == IF v = JNull THEN None ELSE v

RECURSIVE SortItems(_)
\* sort_keys=True on a dict with str keys
SortItems(d) ==
    IF d = <<>> THEN <<>>
    ELSE LET m == CHOOSE n \in 1..Len(d) : \A o \in 1..Len(d) : ~StrLess(d[o].key, d[n].key)
         IN  <<d[m]>> \o SortItems(SelectSeq(d, LAMBDA it : it.key # d[m].key))

RECURSIVE IntItems(_, _)
\* sort_keys=True on a dict with int keys f: the items by increasing key, each key
\* written as the str of the int
IntItems(f, ks) ==
    IF ks = {} THEN <<>>
    ELSE LET m == CHOOSE k \in ks : \A o \in ks : k <= o
         IN  <<[key |-> StrOf(m), val |-> f[m]]>> \o IntItems(f, ks \ {m})

DumpLabels(labels) ==
    SortItems([n \in 1..Len(labels) |->
        [key |-> labels[n].key,
         val |-> [t \in 1..Len(labels[n].val) |-> DumpStr(labels[n].val[t])]]])

DumpRecord(r) ==
    [sentence |-> r.sentence, labels |-> DumpLabels(r.labels),
     macro |-> DumpStr(r.macro), scope |-> r.scope]

DumpAnn(a) == [t |-> a.t, index |-> a.index, text |-> DumpStr(a.text), label |-> a.label]

DumpEntry(e) ==
    LET recs == IntItems(e.data, DOMAIN e.data)
        anns == IntItems(e.annotations, DOMAIN e.annotations)
    IN  [data |-> [n \in 1..Len(recs) |->
                     [key |-> recs[n].key, val |-> DumpRecord(recs[n].val)]],
         annotations |-> [n \in 1..Len(anns) |->
                            [key |-> anns[n].key, val |-> DumpAnn(anns[n].val)]],
         text |-> IntItems(e.text, DOMAIN e.text)]

\* json.dump(data, ..., sort_keys=True): the document, each object the sequence of
\* its members in the order written
JsonDump(d) ==
    SortItems([n \in 1..Len(d) |-> [key |-> d[n].key, val |-> DumpEntry(d[n].val)]])

LoadLabels(labels) ==
    [n \in 1..Len(labels) |->
        [key |-> labels[n].key,
         val |-> [t \in 1..Len(labels[n].val) |-> LoadStr(labels[n].val[t])]]]

LoadRecord(r) ==
    [sentence |-> r.sentence, labels |-> LoadLabels(r.labels),
     macro |-> LoadStr(r.macro), scope |-> r.scope]

LoadAnn(a) == [t |-> a.t, index |-> a.index, text |-> LoadStr(a.text), label |-> a.label]

LoadEntry(e) ==
    [data |-> [n \in 1..Len(e.data) |->
                 [key |-> e.data[n].key, val |-> LoadRecord(e.data[n].val)]],
     annotations |-> [n \in 1..Len(e.annotations) |->
                        [key |-> e.annotations[n].key,
                         val |-> LoadAnn(e.annotations[n].val)]],
     text |-> e.text]

\* json.load of the document: every object a dict with str keys, in document order
JsonLoad(doc) ==
    [n \in 1..Len(doc) |-> [key |-> doc[n].key, val |-> LoadEntry(doc[n].val)]]

NEGATIVE == <<"N", "e", "g", "a", "t", "i", "v", "e">>

\* LabelCell over sorted(labels) in place of the keys in insertion order.
LabelCellSorted(labels, flt) ==
    LET ks == Keys(SortItems(labels))
        label == Join(<<",", " ">>, IF ~flt THEN ks ELSE SubSeq(ks, 1, Min(1, Len(ks))))
    IN  IF label = <<>> THEN NEGATIVE ELSE label

\* The label cell of a row.
LabelCell(labels, flt) ==
    LET ks == Keys(labels)
        label == Join(<<",", " ">>, IF ~flt THEN ks ELSE SubSeq(ks, 1, Min(1, Len(ks))))
    IN  IF label = <<>> THEN NEGATIVE ELSE label

\* The macro cell of a row.
MacroCell(macro) == IF macro = None \/ macro = <<>> THEN NEGATIVE ELSE macro

\* The rows of one file, in the order of data_entry["data"].items().
FileRows(file_name, e, flt) ==
    LET items == IntItems(e.data, DOMAIN e.data)
    IN  [n \in 1..Len(items) |->
            [file_id |-> file_name, scope |-> items[n].val.scope,
             label |-> LabelCell(items[n].val.labels, flt),
             macro |-> MacroCell(items[n].val.macro),
             text |-> items[n].val.sentence]]

RECURSIVE CsvRows(_, _, _)
\* The rows written after the header, file by file.
CsvRows(d, n, flt) ==
    IF n > Len(d) THEN <<>>
    ELSE FileRows(d[n].key, d[n].val, flt) \o CsvRows(d, n + 1, flt)

-----------------------------------------------------------------------------
(* The ingestion run: files_to_dict() over annotations(), then store_csv_json() *)

CurFile == dataset[fi]

\* fname = file_name.split('/')[-1]
FName(file_name) == LET parts == Split(file_name, <<"/">>) IN parts[Len(parts)]

HEADER == "header"

\* annotations(): both files of the pair open, and the pair is yielded
Yield ==
    /\ ipc = "open"
    /\ fi <= Len(dataset)
    /\ CurFile.hasAnn /\ CurFile.hasTxt
    /\ ipc' = "convert"
    /\ UNCHANGED <<dataset, fi, err, load, text, ann, position, sidx, entry, data,
                   flat, jsonOut, csvOut, avars>>

\* annotations(): except FileNotFoundError
FileNotFound ==
    /\ ipc = "open"
    /\ fi <= Len(dataset)
    /\ ~(CurFile.hasAnn /\ CurFile.hasTxt)
    /\ err' = err + 1
    /\ fi' = fi + 1
    /\ UNCHANGED <<dataset, ipc, load, text, ann, position, sidx, entry, data,
                   flat, jsonOut, csvOut, avars>>

\* files_to_dict(): text, annotation = convert(annotation, text), then the first
\* lines of entry_to_data(); a ValueError of convert() is caught nowhere
Convert ==
    /\ ipc = "convert"
    /\ LET r == ConvertAnn(CurFile.annf) IN
         IF r.exc = "ValueError"
         THEN /\ ipc' = "ValueError"
              /\ UNCHANGED <<text, ann, position, sidx, entry>>
         ELSE /\ ipc' = "entry"
              /\ text' = ConvertText(CurFile.txt)
              /\ ann' = IF r.exc = "IndexError" THEN <<>> ELSE r.ann
              /\ position' = 0
              /\ sidx' = 0
              /\ entry' = <<>>
    /\ UNCHANGED <<dataset, fi, err, load, data, flat, jsonOut, csvOut, avars>>

\* entry_to_data(): one pass of the loop over sorted(text_lines.items()); an
\* IndexError of ann["index"][1] is caught nowhere
EntrySentence ==
    /\ ipc = "entry"
    /\ sidx \in DOMAIN text
    /\ LET st == WalkSentence(text[sidx], ann, position) IN
         IF st.exc # "none"
         THEN /\ ipc' = st.exc
              /\ UNCHANGED <<position, sidx, entry>>
         ELSE /\ entry' = [k \in (DOMAIN entry) \cup {sidx} |->
                             IF k = sidx
                             THEN SentenceRecord(CurFile.name, sidx, text[sidx], st)
                             ELSE entry[k]]
              /\ position' = st.position
              /\ sidx' = sidx + 1
              /\ ipc' = ipc
    /\ UNCHANGED <<dataset, fi, err, load, text, ann, data, flat, jsonOut, csvOut, avars>>

\* entry_to_data() returns; files_to_dict() stores the entry and asks the generator
\* for the next pair (load += 1); the locals of the pass are gone
EntryReturn ==
    /\ ipc = "entry"
    /\ sidx \notin DOMAIN text
    /\ data' = Put(data, FName(CurFile.name),
                   [data |-> entry, annotations |-> ann, text |-> text])
    /\ load' = load + 1
    /\ fi' = fi + 1
    /\ ipc' = "open"
    /\ text' = <<>> /\ ann' = <<>> /\ position' = 0 /\ sidx' = 0 /\ entry' = <<>>
    /\ UNCHANGED <<dataset, err, flat, jsonOut, csvOut, avars>>

\* annotations() is exhausted, files_to_dict() returns data
Exhausted ==
    /\ ipc = "open"
    /\ fi > Len(dataset)
    /\ ipc' = "store"
    /\ UNCHANGED <<dataset, fi, err, load, text, ann, position, sidx, entry, data,
                   flat, jsonOut, csvOut, avars>>

\* store_csv_json(data, name, flat)
Store ==
    /\ ipc = "store"
    /\ \E flt \in BOOLEAN :
         /\ flat' = flt
         /\ csvOut' = <<HEADER>> \o CsvRows(data, 1, flt)
    /\ jsonOut' = JsonDump(data)
    /\ ipc' = "done"
    /\ UNCHANGED <<dataset, fi, err, load, text, ann, position, sidx, entry, data, avars>>

NextIngest ==
    \/ Yield
    \/ FileNotFound
    \/ Convert
    \/ EntrySentence
    \/ EntryReturn
    \/ Exhausted
    \/ Store

-----------------------------------------------------------------------------
(* The inputs of the ingestion run *)

\* One line of a .ann file: id, "label start end", text
AnnLine(id, label, offs, txt) ==
    <<"T">> \o StrOf(id) \o <<"\t">> \o label \o <<" ">> \o Join(<<" ">>, offs)
        \o <<"\t">> \o txt \o <<NL>>

Labels == {<<"X">>, <<"Y">>}

\* The lines of the .txt files.
LinePool == {<<"a", "b", NL>>, <<"c", NL>>}

RECURSIVE TotalLen(_)
TotalLen(lines) == IF lines = <<>> THEN 0 ELSE Len(lines[1]) + TotalLen(Tail(lines))

SpanWidths == {1, 2}

\* The text of the n-th annotation line, one per line so that the order of the
\* texts in a label's list shows
SpanText(n) == <<Alphabet[Ord("a") + n - 1]>>

\* The spans of the well-formed lines.
Spans == [start : 0..MaxStart, width : SpanWidths, label : Labels]

\* The .ann files of well-formed lines: at most MaxAnn lines, by non-decreasing
\* start offset
AnnFiles ==
    LET ok == {q \in SeqsUpTo(Spans, MaxAnn) :
                  \A n \in 1..(Len(q) - 1) : q[n].start <= q[n + 1].start}
    IN  {[n \in 1..Len(q) |->
            AnnLine(n, q[n].label, <<StrOf(q[n].start), StrOf(q[n].start + q[n].width)>>,
                    SpanText(n))] : q \in ok}

File(name, annf, txt) ==
    [name |-> name, hasAnn |-> TRUE, hasTxt |-> TRUE, annf |-> annf, txt |-> txt]

\* A file whose .txt is missing.
Unpaired(name) ==
    [name |-> name, hasAnn |-> TRUE, hasTxt |-> FALSE, annf |-> <<>>, txt |-> <<>>]

ASKFILE == <<"d", "/", "a", "s", "k", "1">>
DOCFILE == <<"d", "/", "d", "o", "c">>
TASKFILE == <<"d", "/", "t", "a", "s", "k">>
UPPERFILE == <<"d", "/", "A", "s", "k">>
\* the folder, not the file, holds the token
ASKDIRFILE == <<"a", "s", "k", "/", "d">>

\* "T1<TAB>X 0 2;3 5<TAB>a": a discontinuous span, the second offset no int
BadOffsetLine == AnnLine(1, <<"X">>, <<<<"0">>, <<"2", ";", "3">>, <<"5">>>>, <<"a">>)
\* "T1<TAB>X 0<TAB>a": no end offset
NoEndLine == AnnLine(1, <<"X">>, <<<<"0">>>>, <<"a">>)
\* an empty line
EmptyLine == <<NL>>
\* "T1<TAB>X 0 1": no text field
NoTextLine == <<"T", "1", "\t", "X", " ", "0", " ", "1", NL>>
\* "T1<TAB>Y 0 1<TAB>P": the text the pilcrow
PilcrowLine == AnnLine(1, <<"Y">>, <<<<"0">>, <<"1">>>>, <<PILCROW>>)

IngestIdle ==
    /\ ipc = "open" /\ fi = 1 /\ err = 0 /\ load = 0
    /\ text = <<>> /\ ann = <<>> /\ position = 0 /\ sidx = 0 /\ entry = <<>>
    /\ data = <<>> /\ flat = TRUE /\ jsonOut = <<>> /\ csvOut = <<>>

AnonIdle ==
    /\ chunks = <<>> /\ ppc = "idle" /\ ci = 0 /\ cj = 0 /\ dic = <<>> /\ posted = <<>>
    /\ mi = 0 /\ new_sent_list = <<>> /\ hash_dict = <<>> /\ merged = <<>>

PLINE == <<PILCROW, " ", "b", NL>>

\* The .ann files with a line that is not well-formed or not usual, over a .txt
\* with a blank line and the pilcrow marker
OddDatasets ==
    {<<File(n, <<l>>, <<PLINE, <<NL>>, <<"a", "b", NL>>>>)>> :
        l \in {BadOffsetLine, NoEndLine, EmptyLine, NoTextLine, PilcrowLine,
               AnnLine(1, <<"X">>, <<<<"0">>, <<"0">>>>, <<"a">>),
               AnnLine(1, <<"X">>, <<<<"5">>, <<"2">>, <<"9">>>>, <<"a">>)},
        n \in {ASKFILE, DOCFILE}}

\* One file: every .txt over LinePool with every well-formed .ann, the odd files,
\* and a file with no .txt
EntryDatasets ==
    {<<File(ASKFILE, a, t)>> : a \in AnnFiles, t \in SeqsUpTo(LinePool, MaxLines)}
    \cup {<<File(n, <<>>, t)>> : n \in {DOCFILE, TASKFILE, UPPERFILE, ASKDIRFILE},
                                 t \in SeqsUpTo(LinePool, MaxLines)}
    \cup OddDatasets
    \cup {<<Unpaired(DOCFILE)>>}

InitEntry ==
    /\ dataset \in EntryDatasets
    /\ IngestIdle
    /\ AnonIdle

SpecEntry == InitEntry /\ [][NextIngest]_vars

\* A line of a .txt file that holds the line separator only.
BLANK == <<NL>>

\* The .txt files with blank lines between and before the sentences, beside one
\* with none.
AlignTexts ==
    {<<<<"a", "b", NL>>, <<"c", NL>>>>,
     <<<<"c", NL>>, BLANK, <<"c", NL>>>>,
     <<<<"a", "b", NL>>, BLANK, <<"c", NL>>>>,
     <<BLANK, BLANK, <<"c", NL>>, <<"c", NL>>>>}

\* One file: every such .txt with every well-formed .ann, and a file with no .txt
AlignDatasets ==
    {<<File(DOCFILE, a, t)>> : a \in AnnFiles, t \in AlignTexts}
    \cup {<<Unpaired(DOCFILE)>>}

InitAlign ==
    /\ dataset \in AlignDatasets
    /\ IngestIdle
    /\ AnonIdle

SpecAlign == InitAlign /\ [][NextIngest]_vars

-----------------------------------------------------------------------------
(* twitIE_amica.py: get_entities() *)

\* An attribute the entity object does not hold.
Absent == <<"#absent">>

NA == <<"n", "a">>

K_LOCATION == <<"L", "o", "c", "a", "t", "i", "o", "n">>
K_PERSON == <<"P", "e", "r", "s", "o", "n">>
K_USERID == <<"U", "s", "e", "r", "I", "D">>
K_URL == <<"U", "R", "L">>
K_ORGANIZATION == <<"O", "r", "g", "a", "n", "i", "z", "a", "t", "i", "o", "n">>
K_HASHTAG == <<"H", "a", "s", "h", "t", "a", "g">>

\* (start, end) of each entity object
StartEnd(objs) == [n \in 1..Len(objs) |-> <<objs[n].indices[1], objs[n].indices[Len(objs[n].indices)]>>]

\* (start, end, locType), 'na' when the object has no locType
LocationTuples(objs) ==
    [n \in 1..Len(objs) |->
        <<objs[n].indices[1], objs[n].indices[Len(objs[n].indices)],
          IF objs[n].locType = Absent THEN NA ELSE objs[n].locType>>]

\* (start, end, gender), 'na' when the object has no gender
PersonTuples(objs) ==
    [n \in 1..Len(objs) |->
        <<objs[n].indices[1], objs[n].indices[Len(objs[n].indices)],
          IF objs[n].gender = Absent THEN NA ELSE objs[n].gender>>]

RECURSIVE GetEntitiesFrom(_, _, _)
\* The loop over entity_keys: the first of the five tests that the key passes
\* decides the list its objects are appended to.
GetEntitiesFrom(entities, n, acc) ==
    IF n > Len(entities) THEN acc
    ELSE LET k == entities[n].key
             objs == entities[n].val
         IN  GetEntitiesFrom(entities, n + 1,
               IF Contains(k, K_LOCATION)
               THEN [acc EXCEPT !.location_list = @ \o LocationTuples(objs)]
               ELSE IF Contains(k, K_PERSON)
               THEN [acc EXCEPT !.person_list = @ \o PersonTuples(objs)]
               ELSE IF Contains(k, K_USERID)
               THEN [acc EXCEPT !.usrid_list = @ \o StartEnd(objs)]
               ELSE IF Contains(k, K_URL)
               THEN [acc EXCEPT !.url_list = @ \o StartEnd(objs)]
               ELSE IF Contains(k, K_ORGANIZATION)
               THEN [acc EXCEPT !.url_list = @ \o StartEnd(objs)]
               ELSE acc)

GetEntities(entities) ==
    GetEntitiesFrom(entities, 1,
        [url_list |-> <<>>, usrid_list |-> <<>>, person_list |-> <<>>,
         location_list |-> <<>>])

-----------------------------------------------------------------------------
(* twitIE_amica.py: process() *)

\* batch_size = 25
batch_size == 25

\* The delimiter process() joins the sentences with.
DELIM == <<" ", "<", "-", "-", ">", " ">>

\* The delimiter process_merge() splits on: DELIM as the service returns it.
DELIM_ESCAPED == <<" ", "&", "l", "t", ";", "-", "-", "&", "g", "t", ";", " ">>

\* " <--> ".join(...)
Sentences(batch) == Join(DELIM, batch)

RECURSIVE HtmlEscape(_)
\* The text of a response: the text posted, with <, > and & as the service
\* returns them.
HtmlEscape(s) ==
    LET at == {m \in 1..Len(s) : s[m] \in {"<", ">", "&"}}
    IN  IF at = {} THEN s
        ELSE LET m == CHOOSE m \in at : \A n \in at : m <= n
             IN  SubSeq(s, 1, m - 1)
                 \o (CASE s[m] = "<" -> <<"&", "l", "t", ";">>
                       [] s[m] = ">" -> <<"&", "g", "t", ";">>
                       [] s[m] = "&" -> <<"&", "a", "m", "p", ";">>)
                 \o HtmlEscape(SubSeq(s, m + 1, Len(s)))

\* dic[key] = (text, url_list, usrid_list, person_list, location_list)
DicValue(response) ==
    LET e == GetEntities(response.entities)
    IN  [text |-> response.text, url_list |-> e.url_list, usrid_list |-> e.usrid_list,
         person_list |-> e.person_list, location_list |-> e.location_list]

\* np.array_split(chunk, batch_size)[j]: the first len % batch_size parts hold
\* len // batch_size + 1 rows, the others len // batch_size
SubBatch(chunk, j) ==
    LET each == Len(chunk) \div batch_size
        extra == Len(chunk) % batch_size
        from == j * each + Min(j, extra)
        size == each + (IF j < extra THEN 1 ELSE 0)
    IN  SubSeq(chunk, from + 1, from + size)

\* str(i)+'.'+str(j)
SubKey(i, j) == StrOf(i) \o <<".">> \o StrOf(j)

-----------------------------------------------------------------------------
(* twitIE_amica.py: process_merge() *)

LOCATION_UNKNOWN ==
    <<"<", "L", "O", "C", "A", "T", "I", "O", "N", "_", "u", "n", "k", "n", "o", "w", "n", ">">>
PERSON_UNKNOWN ==
    <<"<", "P", "E", "R", "S", "O", "N", "_", "g", "e", "n", "d", "e", "r", "_",
      "u", "n", "k", "n", "o", "w", "n", ">">>
URL_TOKEN == <<"<", "U", "R", "L", ">">>
USER_ID == <<"<", "U", "S", "E", "R", "_", "I", "D", ">">>

PRE == <<"p", "r", "e">>
POST == <<"p", "o", "s", "t">>
UNKNOWN == <<"u", "n", "k", "n", "o", "w", "n">>
NONE_TEXT == <<"N", "o", "n", "e">>

\* LocationToken with 'post' missing from the list of line 301.
LocationTokenNoPost(typ) ==
    IF typ \in {NA, PRE, UNKNOWN, None} THEN LOCATION_UNKNOWN
    ELSE <<"<", "L", "O", "C", "A", "T", "I", "O", "N", "_">> \o typ \o <<">">>

\* replace_with of a location of the given type
LocationToken(typ) ==
    IF typ \in {NA, PRE, POST, UNKNOWN, None} THEN LOCATION_UNKNOWN
    ELSE <<"<", "L", "O", "C", "A", "T", "I", "O", "N", "_">> \o typ \o <<">">>

\* replace_with of a person of the given gender
PersonToken(gender) ==
    IF gender \in {NA, NONE_TEXT, None} THEN PERSON_UNKNOWN
    ELSE <<"<", "P", "E", "R", "S", "O", "N", "_">> \o gender \o <<">">>

\* UserIdReplaced with only 'i' excluded.
UserIdReplacedOnlyI(raw) == raw # <<"i">>

\* Whether a UserID span of this raw text is replaced.
UserIdReplaced(raw) == raw # <<"i">> /\ raw # <<"t">>

\* The (raw, replace_with) pairs of the four loops, in the order appended to
\* total_replace.
TotalReplace(v) ==
    [n \in 1..Len(v.location_list) |->
        [raw |-> Slice(v.text, v.location_list[n][1], v.location_list[n][2]),
         with |-> LocationToken(v.location_list[n][3])]]
    \o [n \in 1..Len(v.person_list) |->
        [raw |-> Slice(v.text, v.person_list[n][1], v.person_list[n][2]),
         with |-> PersonToken(v.person_list[n][3])]]
    \o [n \in 1..Len(v.url_list) |->
        [raw |-> Slice(v.text, v.url_list[n][1], v.url_list[n][2]),
         with |-> URL_TOKEN]]
    \o SelectSeq([n \in 1..Len(v.usrid_list) |->
                    [raw |-> Slice(v.text, v.usrid_list[n][1], v.usrid_list[n][2]),
                     with |-> USER_ID]],
                 LAMBDA tup : UserIdReplaced(tup.raw))

RECURSIVE HashWrites(_, _, _)
\* hash_dict[raw] = replace_with for every pair, in order
HashWrites(h, pairs, n) ==
    IF n > Len(pairs) THEN h
    ELSE HashWrites(Put(h, pairs[n].raw, pairs[n].with), pairs, n + 1)

RECURSIVE ReplaceAll(_, _, _)
\* for tups in total_replace: new_sentences = new_sentences.replace(tups[0], tups[-1])
ReplaceAll(txt, pairs, n) ==
    IF n > Len(pairs) THEN txt
    ELSE ReplaceAll(Replace(txt, pairs[n].raw, pairs[n].with), pairs, n + 1)

\* new_sentences.split(' &lt;--&gt; ') of one item of dictionary1
NewSentences(v) == Split(ReplaceAll(v.text, TotalReplace(v), 1), DELIM_ESCAPED)

RECURSIVE MergeFrom(_, _, _)
\* The loop of process_merge() over dictionary1.items(), from item n on.
MergeFrom(d, n, acc) ==
    IF n > Len(d) THEN acc
    ELSE LET v == d[n].val
             h == HashWrites(acc.hash_dict, TotalReplace(v), 1)
             out == NewSentences(v)
         IN  MergeFrom(d, n + 1,
               [new_sent_list |-> acc.new_sent_list \o out,
                hash_dict |-> h,
                merged |-> Append(acc.merged,
                             [key |-> d[n].key, total_replace |-> TotalReplace(v),
                              out |-> out, hash_dict |-> h])])

\* process_merge(dictionary1)
ProcessMerge(d) ==
    MergeFrom(d, 1, [new_sent_list |-> <<>>, hash_dict |-> <<>>, merged |-> <<>>])

-----------------------------------------------------------------------------
(* The anonymization run: process(), then process_merge() *)

\* What the service finds in the runs of process(): every "@" with the character
\* after it is a UserID.
Mentions(txt) ==
    LET at == SelectSeq([k \in 1..Len(txt) |-> k],
                        LAMBDA k : txt[k] = "@" /\ k < Len(txt) /\ txt[k + 1] # " ")
    IN  IF at = <<>> THEN <<>>
        ELSE <<[key |-> K_USERID,
                val |-> [n \in 1..Len(at) |->
                           [indices |-> <<at[n] - 1, at[n] + 1>>,
                            locType |-> Absent, gender |-> Absent]]]>>

\* response.json() of a request that succeeds
Response(sentences) ==
    [text |-> HtmlEscape(sentences), entities |-> Mentions(HtmlEscape(sentences))]

\* The request for chunk i succeeds: dic[str(i)] = ...
PostChunkOk ==
    /\ ppc = "chunk"
    /\ ci < Len(chunks)
    /\ posted' = Append(posted, [i |-> ci, j |-> -1, batch |-> chunks[ci + 1], ok |-> TRUE,
                                 entities |-> Response(Sentences(chunks[ci + 1])).entities])
    /\ dic' = Put(dic, StrOf(ci), DicValue(Response(Sentences(chunks[ci + 1]))))
    /\ ci' = ci + 1
    /\ UNCHANGED <<chunks, ppc, cj, mi, new_sent_list, hash_dict, merged, ivars>>

\* The request for chunk i raises: new_chunks = np.array_split(chunks[i], batch_size)
PostChunkFails ==
    /\ ppc = "chunk"
    /\ ci < Len(chunks)
    /\ posted' = Append(posted, [i |-> ci, j |-> -1, batch |-> chunks[ci + 1], ok |-> FALSE,
                                 entities |-> <<>>])
    /\ ppc' = "sub"
    /\ cj' = 0
    /\ UNCHANGED <<chunks, ci, dic, mi, new_sent_list, hash_dict, merged, ivars>>

\* The request for new_chunks[j] succeeds: dic[ids] = ...
PostSubOk ==
    /\ ppc = "sub"
    /\ cj < batch_size
    /\ LET batch == SubBatch(chunks[ci + 1], cj) IN
         /\ posted' = Append(posted, [i |-> ci, j |-> cj, batch |-> batch, ok |-> TRUE,
                                      entities |-> Response(Sentences(batch)).entities])
         /\ dic' = Put(dic, SubKey(ci, cj), DicValue(Response(Sentences(batch))))
    /\ cj' = cj + 1
    /\ UNCHANGED <<chunks, ppc, ci, mi, new_sent_list, hash_dict, merged, ivars>>

\* PostSubFails with the break of line 261 in place of the return of line 259.
PostSubBreaks ==
    /\ ppc = "sub"
    /\ cj < batch_size
    /\ posted' = Append(posted, [i |-> ci, j |-> cj,
                                 batch |-> SubBatch(chunks[ci + 1], cj), ok |-> FALSE,
                                 entities |-> <<>>])
    /\ ppc' = "chunk"
    /\ ci' = ci + 1
    /\ UNCHANGED <<chunks, cj, dic, mi, new_sent_list, hash_dict, merged, ivars>>

\* The request for new_chunks[j] raises: return dic
PostSubFails ==
    /\ ppc = "sub"
    /\ cj < batch_size
    /\ posted' = Append(posted, [i |-> ci, j |-> cj,
                                 batch |-> SubBatch(chunks[ci + 1], cj), ok |-> FALSE,
                                 entities |-> <<>>])
    /\ ppc' = "merge"
    /\ UNCHANGED <<chunks, ci, cj, dic, mi, new_sent_list, hash_dict, merged, ivars>>

\* The loop over new_chunks ends: on to chunk i + 1
SubsDone ==
    /\ ppc = "sub"
    /\ cj = batch_size
    /\ ci' = ci + 1
    /\ ppc' = "chunk"
    /\ UNCHANGED <<chunks, cj, dic, posted, mi, new_sent_list, hash_dict, merged, ivars>>

\* The loop over chunks ends: return dic
ProcessReturn ==
    /\ ppc = "chunk"
    /\ ci = Len(chunks)
    /\ ppc' = "merge"
    /\ UNCHANGED <<chunks, ci, cj, dic, posted, mi, new_sent_list, hash_dict, merged, ivars>>

\* batch_list, batch_hash = process_merge(temp_dict)
Merge ==
    /\ ppc = "merge"
    /\ LET r == ProcessMerge(dic) IN
         /\ new_sent_list' = r.new_sent_list
         /\ hash_dict' = r.hash_dict
         /\ merged' = r.merged
    /\ mi' = Len(dic)
    /\ ppc' = "done"
    /\ UNCHANGED <<chunks, ci, cj, dic, posted, ivars>>

NextAnon ==
    \/ PostChunkOk
    \/ PostChunkFails
    \/ PostSubOk
    \/ PostSubFails
    \/ SubsDone
    \/ ProcessReturn
    \/ Merge

-----------------------------------------------------------------------------
(* The inputs of the anonymization run *)

\* Most chunks of a run.
MaxChunks == 2

\* A chunk of one row more than batch_size: its first sub-batch holds two rows.
LongChunk == [n \in 1..(batch_size + 1) |-> IF n % 2 = 1 THEN <<"@", "b">> ELSE <<"b">>]

ChunkPool == {<<<<"@", "b">>, <<"i">>>>, LongChunk}

IngestDone ==
    /\ dataset = <<>> /\ ipc = "done" /\ fi = 1 /\ err = 0 /\ load = 0
    /\ text = <<>> /\ ann = <<>> /\ position = 0 /\ sidx = 0 /\ entry = <<>>
    /\ data = <<>> /\ flat = TRUE /\ jsonOut = <<>> /\ csvOut = <<>>

InitProcess ==
    /\ chunks \in SeqsUpTo(ChunkPool, MaxChunks)
    /\ ppc = "chunk" /\ ci = 0 /\ cj = 0 /\ dic = <<>> /\ posted = <<>>
    /\ mi = 0 /\ new_sent_list = <<>> /\ hash_dict = <<>> /\ merged = <<>>
    /\ IngestDone

SpecProcess == InitProcess /\ [][NextAnon]_vars

-----------------------------------------------------------------------------
(* process_merge() on one response *)

\* Most entity objects in a response.
MaxEntities == 2

FEMALE == <<"f">>
CITY == <<"c", "i", "t", "y">>

LocTypes == {Absent, None, NA, PRE, POST, UNKNOWN, CITY, <<>>}
Genders == {Absent, None, NA, NONE_TEXT, FEMALE, <<>>}

EntityKeys == <<K_LOCATION, K_PERSON, K_USERID, K_URL, K_ORGANIZATION, K_HASHTAG>>

MergeBatches ==
    {<<<<"i">>, <<"@", "b">>>>, <<<<"@", "b">>, <<"b">>>>, <<<<"t">>, <<"g">>>>}

\* Where sentence k of the batch starts in the text of the response.
SentenceStart(batch, k) ==
    IF k = 1 THEN 0
    ELSE Len(HtmlEscape(Sentences(SubSeq(batch, 1, k - 1)))) + Len(DELIM_ESCAPED)

\* The non-empty spans that lie within one sentence of the batch.
SentenceSpans(batch) ==
    {<<SentenceStart(batch, k) + a, SentenceStart(batch, k) + b>> :
        <<k, a, b>> \in {t \in (1..Len(batch)) \X (0..2) \X (1..2) :
                            t[2] < t[3] /\ t[3] <= Len(HtmlEscape(batch[t[1]]))}}

\* The entity objects a response to the batch may hold, each with the key it is
\* listed under: every attribute on the first sentence, every key on every span.
EntityPool(batch) ==
    {[key |-> K_LOCATION, indices |-> <<0, Len(batch[1])>>, locType |-> t, gender |-> Absent] :
        t \in LocTypes}
    \cup {[key |-> K_PERSON, indices |-> <<0, Len(batch[1])>>, locType |-> Absent, gender |-> g] :
        g \in Genders}
    \cup {[key |-> EntityKeys[k], indices |-> sp, locType |-> Absent, gender |-> Absent] :
        k \in 1..Len(EntityKeys), sp \in SentenceSpans(batch)}

\* response_json['entities']: the objects found, listed under their keys
Entities(found) ==
    LET under(k) == SelectSeq(found, LAMBDA o : o.key = k)
        used == SelectSeq(EntityKeys, LAMBDA k : under(k) # <<>>)
    IN  [n \in 1..Len(used) |-> [key |-> used[n], val |-> under(used[n])]]

Distinct(q) == \A a, b \in 1..Len(q) : a # b => q[a] # q[b]

InitMerge ==
    /\ \E batch \in MergeBatches :
         \E found \in {q \in SeqsUpTo(EntityPool(batch), MaxEntities) : Distinct(q)} :
            /\ chunks = <<batch>>
            /\ posted = <<[i |-> 0, j |-> -1, batch |-> batch, ok |-> TRUE,
                           entities |-> Entities(found)]>>
            /\ dic = <<[key |-> StrOf(0),
                        val |-> DicValue([text |-> HtmlEscape(Sentences(batch)),
                                          entities |-> Entities(found)])]>>
    /\ ppc = "merge" /\ ci = 1 /\ cj = 0
    /\ mi = 0 /\ new_sent_list = <<>> /\ hash_dict = <<>> /\ merged = <<>>
    /\ IngestDone

NextMerge == Merge

SpecMerge == InitMerge /\ [][NextMerge]_vars

-----------------------------------------------------------------------------
(* process_merge() on the responses of a run *)

\* Most responses in the result of process().
MaxResponses == 2

\* An entity object listed under the key k, on the span from..to.
Found(k, from, to, locType, gender) ==
    [key |-> k, indices |-> <<from, to>>, locType |-> locType, gender |-> gender]

\* A batch sent and the entity objects found in it.
Answer(batch, found) == [batch |-> batch, found |-> found]

\* Responses whose texts and spans meet: the same text under two kinds, in two
\* responses, and in the placeholder of another span.
AnswerPool ==
    {Answer(<<<<"b">>>>, <<>>),
     Answer(<<<<"b">>>>, <<Found(K_LOCATION, 0, 1, Absent, Absent)>>),
     Answer(<<<<"b">>>>, <<Found(K_USERID, 0, 1, Absent, Absent)>>),
     Answer(<<<<"i">>>>, <<Found(K_USERID, 0, 1, Absent, Absent)>>),
     Answer(<<<<"i">>>>, <<Found(K_LOCATION, 0, 1, CITY, Absent),
                            Found(K_PERSON, 0, 1, Absent, FEMALE)>>),
     Answer(<<<<"@", "b">>>>, <<Found(K_URL, 0, 2, Absent, Absent)>>),
     Answer(<<<<"@", "b">>, <<"b">>>>, <<Found(K_USERID, 0, 2, Absent, Absent)>>),
     Answer(<<<<"t">>, <<"g">>>>, <<Found(K_PERSON, 0, 1, Absent, Absent),
                                     Found(K_URL, 13, 14, Absent, Absent)>>)}

InitMergeRun ==
    /\ \E run \in SeqsUpTo(AnswerPool, MaxResponses) :
         /\ chunks = [n \in 1..Len(run) |-> run[n].batch]
         /\ posted = [n \in 1..Len(run) |->
                        [i |-> n - 1, j |-> -1, batch |-> run[n].batch, ok |-> TRUE,
                         entities |-> Entities(run[n].found)]]
         /\ dic = [n \in 1..Len(run) |->
                     [key |-> StrOf(n - 1),
                      val |-> DicValue([text |-> HtmlEscape(Sentences(run[n].batch)),
                                        entities |-> Entities(run[n].found)])]]
         /\ ci = Len(run)
    /\ ppc = "merge" /\ cj = 0
    /\ mi = 0 /\ new_sent_list = <<>> /\ hash_dict = <<>> /\ merged = <<>>
    /\ IngestDone

SpecMergeRun == InitMergeRun /\ [][NextMerge]_vars

-----------------------------------------------------------------------------
(* Claims about entry_to_data() *)

RECURSIVE SentStart(_)
\* The offset of the first character of sentence i in the sentences joined by one
\* separator each.
SentStart(i) == IF i = 0 THEN 0 ELSE SentStart(i - 1) + Len(text[i - 1]) + 1

\* The start offsets of the annotations that fall in sentence i.
Applied(i) == {p \in DOMAIN ann : SentStart(i) <= p /\ p < SentStart(i) + Len(text[i])}

Width(p) == ann[p].index[2] - ann[p].index[1]

Macros(i) == {p \in Applied(i) : Width(p) = 1}

Others(i) == {p \in Applied(i) : Width(p) # 1}

RECURSIVE Ascending(_)
\* The numbers of S in increasing order.
Ascending(S) ==
    IF S = {} THEN <<>>
    ELSE LET m == CHOOSE k \in S : \A o \in S : k <= o IN <<m>> \o Ascending(S \ {m})

RECURSIVE CountTexts(_)
\* How many texts the lists of a labels mapping hold.
CountTexts(labels) ==
    IF labels = <<>> THEN 0 ELSE Len(labels[1].val) + CountTexts(Tail(labels))

\* C2, as stated: every span of width 1 of a sentence is the sentence's macro, and
\* the labels mapping holds only the texts of the other spans.
C2_EveryMacroSpanIsMacro ==
    \A i \in DOMAIN entry :
        /\ \A p \in Macros(i) : entry[i].macro = ann[p].label
        /\ CountTexts(entry[i].labels) = Cardinality(Others(i))

\* C2, amended: the macro of a sentence with spans of width 1 is the label of the
\* one with the greatest start offset (the last the cursor meets), and the labels
\* mapping holds only the texts of the other spans.
C2_LastMacroSpanIsMacro ==
    \A i \in DOMAIN entry :
        /\ Macros(i) # {} =>
             \E p \in Macros(i) : /\ \A o \in Macros(i) : o <= p
                                  /\ entry[i].macro = ann[p].label
        /\ CountTexts(entry[i].labels) = Cardinality(Others(i))

\* A sentence with two spans of width 1 of different labels, the later one its macro.
C2_Witness ==
    \E i \in DOMAIN entry : \E p, q \in Macros(i) :
        /\ p < q
        /\ ann[p].label # ann[q].label
        /\ entry[i].macro = ann[q].label
        /\ entry[i].labels = <<>>

\* The texts, by increasing start offset, of the spans of sentence i of a width
\* other than 1 that carry the label.
TextsOf(i, label) ==
    LET ps == Ascending({p \in Others(i) : ann[p].label = label})
    IN  [n \in 1..Len(ps) |-> ann[ps[n]].text]

\* C3: labels maps each label of a span of width other than 1 of the sentence to the
\* texts of those spans in the order of their start offsets, and has no other label;
\* a sentence with no span has no label and no macro.
C3_LabelsInEncounterOrder ==
    \A i \in DOMAIN entry :
        /\ \A n \in 1..Len(entry[i].labels) :
              /\ entry[i].labels[n].val = TextsOf(i, entry[i].labels[n].key)
              /\ entry[i].labels[n].val # <<>>
        /\ \A p \in Others(i) : HasKey(entry[i].labels, ann[p].label)
        /\ \A n, o \in 1..Len(entry[i].labels) :
              entry[i].labels[n].key = entry[i].labels[o].key => n = o
        /\ Applied(i) = {} => entry[i].labels = <<>> /\ entry[i].macro = None

\* A sentence whose label holds two texts, beside a sentence with no span.
C3_Witness ==
    /\ \E i \in DOMAIN entry : \E n \in 1..Len(entry[i].labels) :
          Len(entry[i].labels[n].val) = 2
    /\ \E i \in DOMAIN entry :
          Applied(i) = {} /\ entry[i].labels = <<>> /\ entry[i].macro = None

\* The file names of the model that hold the token "ask".
AskNames == {ASKFILE, TASKFILE, ASKDIRFILE}

\* The file name entry_to_data() is called with for the entry under construction.
EntryFileName == dataset[fi].name

\* C4, as stated: q and a by the parity of the index under a name with "ask", else
\* the scope unknown.
C4_ScopeUnknownWithoutAsk ==
    \A i \in DOMAIN entry :
        entry[i].scope = IF EntryFileName \in AskNames
                         THEN (IF i % 2 = 0 THEN <<"q">> ELSE <<"a">>)
                         ELSE UNKNOWN

\* C4, amended: q and a by the parity of the index under a name with "ask", else
\* the scope "?".
C4_ScopeQuestionMarkWithoutAsk ==
    \A i \in DOMAIN entry :
        entry[i].scope = IF EntryFileName \in AskNames
                         THEN (IF i % 2 = 0 THEN <<"q">> ELSE <<"a">>)
                         ELSE <<"?">>

\* Two sentences of a file whose name holds "Ask" but not "ask".
C4_Witness ==
    /\ fi <= Len(dataset)
    /\ EntryFileName = UPPERFILE
    /\ DOMAIN entry = {0, 1}
    /\ entry[0].scope = <<"?">> /\ entry[1].scope = <<"?">>

-----------------------------------------------------------------------------
(* The ingestion run over a folder of several files *)

\* The names of a folder, in sorted() order.
RunNames == <<UPPERFILE, ASKFILE, DOCFILE>>

\* Two labels met in the order Y, X in the first sentence, none in the second.
TwoLabels ==
    [annf |-> <<AnnLine(1, <<"Y">>, <<<<"0">>, <<"2">>>>, <<"a">>),
                AnnLine(2, <<"X">>, <<<<"1">>, <<"3">>>>, <<"b">>)>>,
     txt |-> <<<<"a", "b", NL>>, <<"c", NL>>>>]

\* A macro on the pilcrow and a span whose text is the pilcrow.
MacroAndNoText ==
    [annf |-> <<PilcrowLine, AnnLine(2, <<"X">>, <<<<"2">>, <<"4">>>>, <<PILCROW>>)>>,
     txt |-> <<PLINE, <<NL>>, <<"a", "b", NL>>>>]

NoAnnotation == [annf |-> <<>>, txt |-> <<<<"c", NL>>>>]

\* A well-formed line, then an empty line.
WithEmptyLine ==
    [annf |-> <<AnnLine(1, <<"X">>, <<<<"0">>, <<"2">>>>, <<"a">>), EmptyLine>>,
     txt |-> <<<<"a", "b", NL>>, <<"c", NL>>>>]

WithNoTextLine == [annf |-> <<NoTextLine>>, txt |-> <<<<"a", "b", NL>>>>]

WithBadOffset == [annf |-> <<BadOffsetLine>>, txt |-> <<<<"a", "b", NL>>>>]

WithNoEnd == [annf |-> <<NoEndLine>>, txt |-> <<<<"a", "b", NL>>>>]

\* The .ann files that hold a line missing a field.
MissingField == {WithEmptyLine.annf, WithNoTextLine.annf}

\* The .ann files that hold a line whose fields are there but ill-formed.
IllFormed == {WithBadOffset.annf, WithNoEnd.annf}

RunContents ==
    {TwoLabels, MacroAndNoText, NoAnnotation, WithEmptyLine, WithNoTextLine,
     WithBadOffset, WithNoEnd}

RunFiles(name) == {File(name, c.annf, c.txt) : c \in RunContents} \cup {Unpaired(name)}

RECURSIVE RunDatasets(_, _)
\* The folders of at most n files named from RunNames[from..], in sorted() order.
RunDatasets(from, n) ==
    IF n = 0 \/ from > Len(RunNames) THEN {<<>>}
    ELSE RunDatasets(from + 1, n)
         \cup {<<f>> \o rest : f \in RunFiles(RunNames[from]),
                               rest \in RunDatasets(from + 1, n - 1)}

InitRun ==
    /\ dataset \in RunDatasets(1, MaxFiles)
    /\ IngestIdle
    /\ AnonIdle

SpecRun == InitRun /\ [][NextIngest]_vars

-----------------------------------------------------------------------------
(* Claims about the ingestion run *)

Paired(n) == dataset[n].hasAnn /\ dataset[n].hasTxt

\* The non-blank lines of a .txt file.
NonBlank(txt) == SelectSeq(txt, LAMBDA l : l # <<NL>>)

\* File n of the folder has been handled by the run.
Handled(n) == n < fi \/ ipc \in {"store", "done"}

\* C8: a file with an annotation line that is not well-formed has its annotation
\* set empty and one record per non-blank line, and no exception ends the run:
\* every file with both parts gets its entry.
C8_MalformedDegradesNoExceptionEscapes ==
    /\ ipc \notin {"ValueError", "IndexError"}
    /\ \A n \in 1..Len(dataset) :
          Handled(n) /\ Paired(n) =>
             /\ HasKey(data, FName(dataset[n].name))
             /\ LET e == Get(data, FName(dataset[n].name)) IN
                  /\ DOMAIN e.data = 0..(Len(NonBlank(dataset[n].txt)) - 1)
                  /\ dataset[n].annf \in MissingField \cup IllFormed
                        => e.annotations = <<>>

\* The part of C8 the code keeps: a file with a line missing a field gets an empty
\* annotation set and its records, and the files after it are handled.
C8_MissingFieldDegrades ==
    \A n \in 1..Len(dataset) :
        Handled(n) /\ Paired(n) /\ dataset[n].annf \in MissingField =>
           /\ HasKey(data, FName(dataset[n].name))
           /\ LET e == Get(data, FName(dataset[n].name)) IN
                /\ DOMAIN e.data = 0..(Len(NonBlank(dataset[n].txt)) - 1)
                /\ e.annotations = <<>>

\* labels as a mapping: the same keys with the same lists, whatever the order.
SameMapping(l1, l2) ==
    /\ \A n \in 1..Len(l1) : HasKey(l2, l1[n].key) /\ Get(l2, l1[n].key) = l1[n].val
    /\ \A n \in 1..Len(l2) : HasKey(l1, l2[n].key)

RECURSIVE CommaJoined(_)
\* The names with ", " between them.
CommaJoined(names) ==
    IF Len(names) = 1 THEN names[1]
    ELSE names[1] \o <<",", " ">> \o CommaJoined(Tail(names))

\* The label cell the claim gives a sentence record.
ClaimedLabelCell(r) ==
    IF r.labels = <<>> THEN NEGATIVE
    ELSE IF flat THEN r.labels[1].key
    ELSE CommaJoined([n \in 1..Len(r.labels) |-> r.labels[n].key])

RECURSIVE SentencesOf(_)
\* The (file id, sentence record) pairs of the first n files of data, in order.
SentencesOf(n) ==
    IF n = 0 THEN <<>>
    ELSE SentencesOf(n - 1)
         \o [i \in 1..Cardinality(DOMAIN data[n].val.data) |->
                [file_id |-> data[n].key, rec |-> data[n].val.data[i - 1]]]

\* C10: after the header the CSV holds one row per sentence, in order, with the
\* label cell the first label (flat) or all labels joined with ", " (not flat) in
\* insertion order, Negative for no label and Negative for no macro.
C10_CsvRows ==
    ipc = "done" =>
        LET sents == SentencesOf(Len(data)) IN
        /\ Len(csvOut) = Len(sents) + 1
        /\ \A n \in 1..Len(sents) :
              /\ csvOut[n + 1].file_id = sents[n].file_id
              /\ csvOut[n + 1].text = sents[n].rec.sentence
              /\ csvOut[n + 1].scope = sents[n].rec.scope
              /\ csvOut[n + 1].label = ClaimedLabelCell(sents[n].rec)
              /\ csvOut[n + 1].macro =
                    IF sents[n].rec.macro = None THEN NEGATIVE ELSE sents[n].rec.macro

\* A CSV written not flat with a row labelled "Y, X", a row with no label and a row
\* with a macro.
C10_Witness ==
    /\ ipc = "done"
    /\ ~flat
    /\ \E n \in 2..Len(csvOut) :
          csvOut[n].label = <<"Y", ",", " ", "X">> /\ csvOut[n].macro = NEGATIVE
    /\ \E n \in 2..Len(csvOut) : csvOut[n].label = NEGATIVE
    /\ \E n \in 2..Len(csvOut) : csvOut[n].macro = <<"Y">>

-----------------------------------------------------------------------------
(* Claims about process() *)

\* The requests that succeeded, in the order sent.
OkPosts == SelectSeq(posted, LAMBDA p : p.ok)

PostKey(p) ==
    IF p.j = -1 THEN StrOf(p.i) ELSE StrOf(p.i) \o <<".">> \o StrOf(p.j)

RECURSIVE Concat(_)
Concat(parts) == IF parts = <<>> THEN <<>> ELSE parts[1] \o Concat(Tail(parts))

\* The rows sent in requests a..b.
RowsSent(a, b) == Concat([n \in 1..(b - a + 1) |-> posted[a + n - 1].batch])

Returned == ppc \in {"merge", "done"}

\* C1: process() sends the whole chunk 0 first; after a whole-chunk request
\* that succeeds comes the next chunk; after one that fails come its sub-batches
\* 0, 1, ..., 24 one by one, the rows of the chunk dealt over them in order, and
\* then the next chunk; a sub-batch request that fails is the last request ever
\* sent and process() has returned; the result holds exactly the entries of the
\* requests that succeeded, in the order they were sent.
C1_FallbackThenReturn ==
    /\ \A n \in 1..Len(posted) :
         LET p == posted[n] IN
           /\ p.i < Len(chunks)
           /\ n = 1 => p.i = 0 /\ p.j = -1
           /\ p.j = -1 => p.batch = chunks[p.i + 1]
           /\ p.j >= 0 =>
                /\ p.j < 25
                /\ n > p.j + 1
                /\ posted[n - p.j - 1].i = p.i
                /\ posted[n - p.j - 1].j = -1
                /\ ~posted[n - p.j - 1].ok
                /\ LET rows == RowsSent(n - p.j, n) IN
                     /\ rows = SubSeq(chunks[p.i + 1], 1, Len(rows))
                     /\ p.j = 24 => rows = chunks[p.i + 1]
           /\ (p.j >= 0 /\ ~p.ok) => n = Len(posted) /\ Returned
           /\ n < Len(posted) =>
                LET q == posted[n + 1] IN
                  IF p.j = -1 /\ ~p.ok THEN q.i = p.i /\ q.j = 0
                  ELSE IF p.j >= 0 /\ p.j < 24 THEN q.i = p.i /\ q.j = p.j + 1
                  ELSE q.i = p.i + 1 /\ q.j = -1
    /\ Keys(dic) = [n \in 1..Len(OkPosts) |-> PostKey(OkPosts[n])]

\* A run of two chunks that has returned on the failure of a sub-batch after the
\* first one: rows were sent in both sub-batches, one entry is kept.
C1_Witness ==
    /\ Returned
    /\ Len(chunks) = 2
    /\ Len(posted) = 3
    /\ ~posted[1].ok /\ posted[2].ok /\ ~posted[3].ok
    /\ posted[2].batch # <<>> /\ posted[3].batch # <<>>
    /\ Len(dic) = 1

-----------------------------------------------------------------------------
(* Claims about process_merge() *)

Count(q, x) == Cardinality({n \in DOMAIN q : q[n] = x})

\* The entity objects of a response listed under key k, as (key, object) pairs.
ObjectsOf(entities) ==
    Concat([n \in 1..Len(entities) |->
              [m \in 1..Len(entities[n].val) |->
                 [kind |-> entities[n].key, obj |-> entities[n].val[m]]]])

OfKind(entities, kinds) == SelectSeq(ObjectsOf(entities), LAMBDA o : o.kind \in kinds)

\* The text the span of an entity object covers in the response kept under
\* item m of the result of process().
RawOf(m, o) == Slice(dic[m].val.text, o.obj.indices[1], o.obj.indices[2])

\* The placeholder the rule gives by kind and attribute.
ClaimedPlaceholder(o) ==
    IF o.kind = K_LOCATION
    THEN (IF o.obj.locType \in {NA, PRE, POST, UNKNOWN, None, Absent}
          THEN <<"<", "L", "O", "C", "A", "T", "I", "O", "N", "_">> \o UNKNOWN \o <<">">>
          ELSE <<"<", "L", "O", "C", "A", "T", "I", "O", "N", "_">> \o o.obj.locType \o <<">">>)
    ELSE IF o.kind = K_PERSON
    THEN (IF o.obj.gender \in {NA, NONE_TEXT, None, Absent}
          THEN <<"<", "P", "E", "R", "S", "O", "N", "_", "g", "e", "n", "d", "e", "r", "_">>
               \o UNKNOWN \o <<">">>
          ELSE <<"<", "P", "E", "R", "S", "O", "N", "_">> \o o.obj.gender \o <<">">>)
    ELSE <<"<", "U", "R", "L", ">">>

\* C5: the pairs process_merge() collects for the Location, Person, URL and
\* Organization objects of a response are, one per object, the text of its span
\* with the placeholder its kind and attribute give: <LOCATION_unknown> for a
\* type na, pre, post, unknown, null or missing, <LOCATION_T> for any other T;
\* <PERSON_gender_unknown> for a gender na, "None", null or missing, <PERSON_G>
\* for any other G; <URL> for a URL or an Organization.
C5_PlaceholderByKindAndAttribute ==
    ppc = "done" =>
      \A m \in 1..Len(merged) :
        LET objs == OfKind(OkPosts[m].entities, {K_LOCATION, K_PERSON, K_URL, K_ORGANIZATION})
            want == [n \in 1..Len(objs) |->
                       [raw |-> RawOf(m, objs[n]), with |-> ClaimedPlaceholder(objs[n])]]
            got == SelectSeq(merged[m].total_replace, LAMBDA t : t.with # USER_ID)
        IN  /\ Len(got) = Len(want)
            /\ \A n \in 1..Len(want) : Count(got, want[n]) = Count(want, want[n])

\* A response with a Location of type post and a Person of gender "None" has
\* been merged.
C5_Witness ==
    /\ ppc = "done"
    /\ Len(merged) = 1
    /\ \E o \in DOMAIN ObjectsOf(posted[1].entities) :
          /\ ObjectsOf(posted[1].entities)[o].kind = K_LOCATION
          /\ ObjectsOf(posted[1].entities)[o].obj.locType = POST
    /\ \E o \in DOMAIN ObjectsOf(posted[1].entities) :
          /\ ObjectsOf(posted[1].entities)[o].kind = K_PERSON
          /\ ObjectsOf(posted[1].entities)[o].obj.gender = NONE_TEXT
    /\ Len(merged[1].total_replace) = 2

Excluded(raw) == raw \in {<<"i">>, <<"t">>}

\* The sentences of item m after substitution, joined again.
OutText(m) == Join(DELIM_ESCAPED, merged[m].out)

C7_OneSentencePerInput ==
    ppc = "done" =>
      /\ \A m \in 1..Len(merged) : Len(merged[m].out) = Len(OkPosts[m].batch)
      /\ Len(new_sent_list) = Len(Concat([m \in 1..Len(OkPosts) |-> OkPosts[m].batch]))

\* C7, where no pair of the response touches the delimiter: the split of a
\* response whose substitutions leave every delimiter in place, and put none
\* in, yields one sentence per sentence sent, the first of them unchanged when
\* the response has no entity.
C7_SplitWhenDelimiterUntouched ==
    ppc = "done" =>
      \A m \in 1..Len(merged) :
        (/\ OkPosts[m].batch # <<>>
         /\ \A n \in 1..Len(merged[m].total_replace) :
              LET raw == merged[m].total_replace[n].raw IN
                /\ raw # <<>>
                /\ \A k \in 1..Len(raw) : raw[k] \notin {"&", "l", "t", ";", "-", "g", " "})
        => /\ Len(merged[m].out) = Len(OkPosts[m].batch)
           /\ merged[m].total_replace = <<>> => merged[m].out = OkPosts[m].batch

\* A response of two sentences has been merged into one: the Person span on
\* the sentence "g" took the g of the delimiter with it.
C7_Lost ==
    /\ ppc = "done"
    /\ Len(merged) = 1
    /\ posted[1].batch = <<<<"t">>, <<"g">>>>
    /\ Len(merged[1].out) = 1

-----------------------------------------------------------------------------
(* Claims about convert() followed by entry_to_data() *)

\* The lines of the .txt file that convert() keeps, by their place in the file.
NonBlankLines(txt) == SelectSeq([n \in 1..Len(txt) |-> n], LAMBDA n : txt[n] # BLANK)

\* The offset in the .txt file of the first character of sentence i.
LineOffset(txt, i) == TotalLen(SubSeq(txt, 1, NonBlankLines(txt)[i + 1] - 1))

\* The start offsets of the annotations that fall in the range sentence i has in
\* the .txt file.
InLine(txt, i) ==
    {p \in DOMAIN ann : LineOffset(txt, i) <= p /\ p < LineOffset(txt, i) + Len(text[i])}

\* The record of sentence i holds what the spans that start in its line give: a
\* macro exactly when one of them has width 1, and as many texts as the others.
FoldedByLine(txt, i) ==
    /\ entry[i].macro # None <=> \E p \in InLine(txt, i) : Width(p) = 1
    /\ CountTexts(entry[i].labels) = Cardinality({p \in InLine(txt, i) : Width(p) # 1})

\* C11: while a file is walked, the cursor is the offset in the .txt file of the
\* first character of the sentence walked next, and the record of every sentence
\* walked holds the spans that start in its line of the file, and no other.
C11_CursorIsFileOffset ==
    ipc = "entry" =>
      /\ sidx \in DOMAIN text => position = LineOffset(CurFile.txt, sidx)
      /\ \A i \in DOMAIN entry : FoldedByLine(CurFile.txt, i)

\* C11 for the files with no blank line: there the cursor is the offset in the
\* file and every record holds the spans of its line.
C11_AlignedWithoutBlankLine ==
    (ipc = "entry" /\ \A n \in 1..Len(CurFile.txt) : CurFile.txt[n] # BLANK) =>
      /\ sidx \in DOMAIN text => position = LineOffset(CurFile.txt, sidx)
      /\ \A i \in DOMAIN entry : FoldedByLine(CurFile.txt, i)

\* After two blank lines the span that starts at the first character of the
\* first sentence is in the record of the second.
C11_Misfolded ==
    /\ ipc = "entry"
    /\ CurFile.txt = <<BLANK, BLANK, <<"c", NL>>, <<"c", NL>>>>
    /\ DOMAIN ann = {2}
    /\ Width(2) = 2
    /\ DOMAIN entry = {0, 1}
    /\ entry[0].labels = <<>>
    /\ entry[1].labels # <<>>

-----------------------------------------------------------------------------
(* Claims about the two outputs of process_merge() *)

\* C12: when process_merge() has returned, for every raw text the map holds and
\* every response in which a span with that text was replaced, the token the
\* map gives for it stands in the sentences of that response.
C12_MapMatchesText ==
    ppc = "done" =>
      \A n \in 1..Len(hash_dict) : \A m \in 1..Len(merged) :
        (\E k \in 1..Len(merged[m].total_replace) :
            merged[m].total_replace[k].raw = hash_dict[n].key)
          => Contains(OutText(m), hash_dict[n].val)

\* C12 for the runs in which one span in all is replaced: the token the map gives
\* for its text stands in the sentences of its response.
C12_SinglePair ==
    (/\ ppc = "done"
     /\ Len(Concat([m \in 1..Len(merged) |-> merged[m].total_replace])) = 1)
    => /\ Len(hash_dict) = 1
       /\ \A m \in 1..Len(merged) :
            merged[m].total_replace # <<>> => Contains(OutText(m), hash_dict[1].val)

\* The "i" of the Location and of the Person: the map gives <PERSON_f> for it,
\* the sentence holds the Location's token with its own i rewritten.
C12_Rewritten ==
    /\ ppc = "done"
    /\ Len(merged) = 1
    /\ dic[1].val.text = <<"i">>
    /\ hash_dict = <<[key |-> <<"i">>, val |-> <<"<", "P", "E", "R", "S", "O", "N", "_", "f", ">">>]>>
    /\ new_sent_list =
         <<<<"<", "L", "O", "C", "A", "T", "I", "O", "N", "_", "c",
             "<", "P", "E", "R", "S", "O", "N", "_", "f", ">", "t", "y", ">">>>>

====
